---- MODULE Spec2Model ----
(***************************************************************************)
(* Category inclusion rule of the bank categories report.                  *)
(*                                                                         *)
(* The rule module (defaultRule, isCategoryChecked, applyRule, toggleRule, *)
(* selectAllRule, clearAllRule) is modelled function by function; JS       *)
(* arrays are sequences, the Set returned by applyRule is a set.  The      *)
(* state machine is one direction of the report page: the rule held in     *)
(* React state, the list of category names present in the loaded items,    *)
(* and the memoised selection derived from both.                           *)
(***************************************************************************)
EXTENDS Integers, Sequences, FiniteSets, TLC

(* ---------------------------------------------------------------------- *)
(* Bounds                                                                  *)
(* ---------------------------------------------------------------------- *)

\* longest excluded / included list held by a rule
MaxLen == 2

\* longest list handed to applyRule when a property quantifies over lists
MaxAvail == 2

\* category names in ascending string order; "" is the falsy name
SortedNames == <<"", "A", "B">>

Names == {SortedNames[i] : i \in DOMAIN SortedNames}

Modes == {"all", "none", "custom"}

BoundedSeq(S, n) == UNION {[1..k -> S] : k \in 0..n}

(* ---------------------------------------------------------------------- *)
(* Array helpers                                                           *)
(* ---------------------------------------------------------------------- *)

\* Array.prototype.includes
Includes(arr, x) == \E i \in DOMAIN arr : arr[i] = x

\* arr.filter((item) => item !== name)
FilterOut(arr, name) == SelectSeq(arr, LAMBDA item : item # name)

\* [...arr, name]
Spread(arr, name) == Append(arr, name)

Range(arr) == {arr[i] : i \in DOMAIN arr}

NameRank(n) == CHOOSE i \in DOMAIN SortedNames : SortedNames[i] = n

\* Array.from(new Set(names)).sort(): the distinct names in ascending order
RECURSIVE SortedDistinct(_)
SortedDistinct(S) ==
  IF S = {} THEN <<>>
  ELSE LET lo == CHOOSE x \in S : \A y \in S : NameRank(x) <= NameRank(y)
       IN <<lo>> \o SortedDistinct(S \ {lo})

(* ---------------------------------------------------------------------- *)
(* The rule module                                                         *)
(* ---------------------------------------------------------------------- *)

defaultRule == [mode |-> "all", excluded |-> <<>>, included |-> <<>>]

\* if (!name) return false; then by mode
isCategoryChecked(rule, name) ==
  IF name = "" THEN FALSE
  ELSE IF rule.mode = "none" THEN Includes(rule.included, name)
  ELSE IF rule.mode = "custom" THEN Includes(rule.included, name)
  ELSE ~Includes(rule.excluded, name)

\* mutant: 'none' selects nothing, whatever included holds
applyRule_noneEmpty(rule, availableNames) ==
  IF rule.mode = "none" THEN {}
  ELSE IF rule.mode = "custom"
    THEN {availableNames[i] : i \in {j \in DOMAIN availableNames :
                                      Includes(rule.included, availableNames[j])}}
  ELSE {availableNames[i] : i \in {j \in DOMAIN availableNames :
                                      ~Includes(rule.excluded, availableNames[j])}}

\* mutant: every mode selects by the included list
applyRule_alwaysIncluded(rule, availableNames) ==
  {availableNames[i] : i \in {j \in DOMAIN availableNames :
                                Includes(rule.included, availableNames[j])}}

\* mutant: every mode selects by the excluded list
applyRule_alwaysExcluded(rule, availableNames) ==
  {availableNames[i] : i \in {j \in DOMAIN availableNames :
                                ~Includes(rule.excluded, availableNames[j])}}

\* new Set(availableNames.filter(...)); every caller passes an array
\* (Array.from(...).sort()), so the Array.isArray guard never fires
applyRule(rule, availableNames) ==
  IF rule.mode = "none"
    THEN {availableNames[i] : i \in {j \in DOMAIN availableNames :
                                      Includes(rule.included, availableNames[j])}}
  ELSE IF rule.mode = "custom"
    THEN {availableNames[i] : i \in {j \in DOMAIN availableNames :
                                      Includes(rule.included, availableNames[j])}}
  ELSE {availableNames[i] : i \in {j \in DOMAIN availableNames :
                                      ~Includes(rule.excluded, availableNames[j])}}

\* mutant: unchecking in 'all' mode turns the rule into an explicit list
toggleAll_toCustom(rule, name, checked) ==
  IF checked
    THEN [mode |-> "custom", excluded |-> <<>>, included |-> <<>>]
    ELSE [rule EXCEPT !.excluded = FilterOut(rule.excluded, name)]

\* rule.mode === "all" branch of toggleRule
toggleAll(rule, name, checked) ==
  IF checked
    THEN [rule EXCEPT !.excluded = Spread(rule.excluded, name)]
    ELSE [rule EXCEPT !.excluded = FilterOut(rule.excluded, name)]

\* mutant: checking a name in 'none' mode forgets to leave 'none'
toggleNone_staysNone(rule, name, checked) ==
  IF checked
    THEN [mode |-> "none", excluded |-> <<>>,
          included |-> FilterOut(rule.included, name)]
    ELSE [mode |-> "none", excluded |-> <<>>,
          included |-> Spread(rule.included, name)]

\* mutant: checking a name in 'none' mode forgets the names already included
toggleNone_dropsOthers(rule, name, checked) ==
  IF checked
    THEN [mode |-> "none", excluded |-> <<>>,
          included |-> FilterOut(rule.included, name)]
    ELSE [mode |-> "custom", excluded |-> <<>>, included |-> <<name>>]

\* rule.mode === "none" branch of toggleRule
toggleNone(rule, name, checked) ==
  IF checked
    THEN [mode |-> "none", excluded |-> <<>>,
          included |-> FilterOut(rule.included, name)]
    ELSE [mode |-> "custom", excluded |-> <<>>,
          included |-> Spread(rule.included, name)]

\* mutant: an emptied 'custom' rule is not collapsed to 'none'
toggleCustom_noCollapse(rule, name, checked) ==
  IF checked
    THEN [mode |-> "custom", excluded |-> <<>>,
          included |-> FilterOut(rule.included, name)]
    ELSE [mode |-> "custom", excluded |-> <<>>,
          included |-> Spread(rule.included, name)]

\* remaining ('custom') branch of toggleRule
toggleCustom(rule, name, checked) ==
  IF checked
    THEN LET nextIncluded == FilterOut(rule.included, name)
         IN IF Len(nextIncluded) = 0
              THEN [mode |-> "none", excluded |-> <<>>, included |-> <<>>]
              ELSE [mode |-> "custom", excluded |-> <<>>,
                    included |-> nextIncluded]
    ELSE [mode |-> "custom", excluded |-> <<>>,
          included |-> Spread(rule.included, name)]

\* the value toggleRule returns
toggleRule(rule, name) ==
  LET checked == isCategoryChecked(rule, name)
  IN IF rule.mode = "all" THEN toggleAll(rule, name, checked)
     ELSE IF rule.mode = "none" THEN toggleNone(rule, name, checked)
     ELSE toggleCustom(rule, name, checked)

\* mutant: the lists of the argument are edited in place (push / splice)
toggleRuleArg_inPlace(rule, name) ==
  IF rule.mode = "all"
    THEN IF isCategoryChecked(rule, name)
           THEN [rule EXCEPT !.excluded = Append(rule.excluded, name)]
           ELSE [rule EXCEPT !.excluded = FilterOut(rule.excluded, name)]
    ELSE IF isCategoryChecked(rule, name)
           THEN [rule EXCEPT !.included = FilterOut(rule.included, name)]
           ELSE [rule EXCEPT !.included = Append(rule.included, name)]

\* the object passed to toggleRule as the call leaves it: the function only
\* reads rule.mode / rule.excluded / rule.included; spread, filter and the
\* object literals build new arrays and objects, and nothing is assigned to
\* a field or an element of the argument
toggleRuleArg(rule, name) ==
  [mode |-> rule.mode, excluded |-> rule.excluded, included |-> rule.included]

\* mutant: "select all" enumerates nothing and leaves an explicit list
selectAllRule_custom == [mode |-> "custom", excluded |-> <<>>, included |-> <<>>]

selectAllRule == [mode |-> "all", excluded |-> <<>>, included |-> <<>>]

\* mutant: clear all leaves an explicit list that is empty
clearAllRule_custom == [mode |-> "custom", excluded |-> <<>>, included |-> <<>>]

clearAllRule == [mode |-> "none", excluded |-> <<>>, included |-> <<>>]

(* ---------------------------------------------------------------------- *)
(* One direction of the report page                                        *)
(* ---------------------------------------------------------------------- *)

VARIABLES
  rule,            \* incomeRule / expenseRule (React state)
  availableNames,  \* incomeAvailableNames / expenseAvailableNames (memo)
  selected,        \* selectedIncomeCategories / selectedExpenseCategories
  last             \* the last handler run, its inputs and the state before

vars == <<rule, availableNames, selected, last>>

\* what normalizeRule lets through from storage: any of the three modes and
\* any two arrays
StoredRules ==
  [mode : Modes,
   excluded : BoundedSeq(Names, MaxLen),
   included : BoundedSeq(Names, MaxLen)]

Init ==
  /\ rule \in StoredRules
  /\ availableNames = <<>>
  /\ selected = applyRule(rule, availableNames)
  /\ last = [op |-> "init", name |-> "", rule |-> rule, arg |-> rule,
             avail |-> availableNames]

\* toggleCategory(direction, name): setRule((prev) => toggleRule(prev, name))
ToggleCategory(name) ==
  LET next == toggleRule(rule, name)
  IN /\ Len(next.excluded) <= MaxLen
     /\ Len(next.included) <= MaxLen
     /\ rule' = next
     /\ selected' = applyRule(next, availableNames)
     /\ last' = [op |-> "toggle", name |-> name, rule |-> rule,
                 arg |-> toggleRuleArg(rule, name), avail |-> availableNames]
     /\ UNCHANGED availableNames

\* selectAll(direction): setRule(selectAllRule())
SelectAll ==
  /\ rule' = selectAllRule
  /\ selected' = applyRule(selectAllRule, availableNames)
  /\ last' = [op |-> "selectAll", name |-> "", rule |-> rule, arg |-> rule,
              avail |-> availableNames]
  /\ UNCHANGED availableNames

\* clearAll(direction): setRule(clearAllRule())
ClearAll ==
  /\ rule' = clearAllRule
  /\ selected' = applyRule(clearAllRule, availableNames)
  /\ last' = [op |-> "clearAll", name |-> "", rule |-> rule, arg |-> rule,
              avail |-> availableNames]
  /\ UNCHANGED availableNames

\* the items of the direction are replaced (setIncomeItems / setExpenseItems)
\* and the two memos are recomputed
ItemsLoaded(names) ==
  /\ SortedDistinct(names) # availableNames
  /\ availableNames' = SortedDistinct(names)
  /\ selected' = applyRule(rule, availableNames')
  /\ last' = [op |-> "items", name |-> "", rule |-> rule, arg |-> rule,
              avail |-> availableNames]
  /\ UNCHANGED rule

Next ==
  \/ \E name \in Names : ToggleCategory(name)
  \/ SelectAll
  \/ ClearAll
  \/ \E names \in SUBSET Names : ItemsLoaded(names)

TypeOK ==
  /\ rule \in [mode : Modes, excluded : Seq(Names), included : Seq(Names)]
  /\ selected \subseteq Names

(* ---------------------------------------------------------------------- *)
(* Properties                                                              *)
(* ---------------------------------------------------------------------- *)

\* the names of avail a rule is documented to select: not in excluded in
\* 'all' mode, in included in 'none' / 'custom' mode
ExpectedSelection(r, avail) ==
  IF r.mode = "all"
    THEN {n \in Range(avail) : n \notin Range(r.excluded)}
    ELSE {n \in Range(avail) : n \in Range(r.included)}

\* C1: for every rule and every list availableNames, applyRule returns
\* exactly the names of the list that are not in excluded ('all') or that
\* are in included ('none', 'custom'), and always a subset of the list.
C1_ApplyRuleSelects ==
  /\ selected = ExpectedSelection(rule, availableNames)
  /\ selected \subseteq Range(availableNames)
  /\ \A avail \in BoundedSeq(Names, MaxAvail) :
       /\ applyRule(rule, avail) = ExpectedSelection(rule, avail)
       /\ applyRule(rule, avail) \subseteq Range(avail)

\* a 'none' rule that still lists names selects a proper, non-empty part of
\* the loaded names
C1_Witness ==
  /\ last.op = "items"
  /\ rule.mode = "none"
  /\ selected # {}
  /\ selected # Range(availableNames)

\* C2: for every rule and every name, the empty string included,
\* isCategoryChecked is true iff the name is not in excluded ('all') or is
\* in included ('none', 'custom'); hence for every available name it holds
\* iff the name is in applyRule(rule, availableNames).
C2_IsCheckedMatchesRule ==
  /\ \A name \in Names :
       isCategoryChecked(rule, name) <=>
         (IF rule.mode = "all" THEN name \notin Range(rule.excluded)
                               ELSE name \in Range(rule.included))
  /\ \A name \in Range(availableNames) :
       isCategoryChecked(rule, name) <=> name \in selected

\* C3: toggle on an 'all' rule returns an 'all' rule; a checked name is
\* appended to excluded, an unchecked name is removed from excluded.
C3_ToggleKeepsAll ==
  (last.op = "toggle" /\ last.rule.mode = "all") =>
    /\ rule.mode = "all"
    /\ IF isCategoryChecked(last.rule, last.name)
         THEN /\ Len(rule.excluded) = Len(last.rule.excluded) + 1
              /\ SubSeq(rule.excluded, 1, Len(last.rule.excluded))
                   = last.rule.excluded
              /\ rule.excluded[Len(rule.excluded)] = last.name
         ELSE /\ last.name \notin Range(rule.excluded)
              /\ Range(rule.excluded) = Range(last.rule.excluded) \ {last.name}

\* the last toggle excluded the only name that was still selected: every
\* non-empty name is now excluded and the rule is still 'all'
C3_Witness ==
  /\ last.op = "toggle"
  /\ last.rule.mode = "all"
  /\ isCategoryChecked(last.rule, last.name)
  /\ Names \ {""} \subseteq Range(rule.excluded)
  /\ rule.mode = "all"

\* C4: toggle on a 'none' rule for a name that is checked (a name of the
\* category list that is in included) stays 'none' with empty included when
\* the removal empties the list, and otherwise yields 'custom' with the name
\* removed.
C4_NoneToggleOff ==
  (/\ last.op = "toggle"
   /\ last.rule.mode = "none"
   /\ last.name \in Range(last.rule.included)
   /\ isCategoryChecked(last.rule, last.name)) =>
    IF Range(last.rule.included) \ {last.name} = {}
      THEN rule.mode = "none" /\ rule.included = <<>>
      ELSE /\ rule.mode = "custom"
           /\ Range(rule.included) = Range(last.rule.included) \ {last.name}

\* C5: toggle on a 'none' or 'custom' rule for an unchecked name returns a
\* 'custom' rule whose included is the previous included plus the name.
C5_ToggleOnGivesCustom ==
  (/\ last.op = "toggle"
   /\ last.rule.mode \in {"none", "custom"}
   /\ ~isCategoryChecked(last.rule, last.name)) =>
    /\ rule.mode = "custom"
    /\ Range(rule.included) = Range(last.rule.included) \cup {last.name}
    /\ Len(rule.included) = Len(last.rule.included) + 1
    /\ SubSeq(rule.included, 1, Len(last.rule.included)) = last.rule.included

\* a name was checked on a 'none' rule and the rule became 'custom'
C5_Witness ==
  /\ last.op = "toggle"
  /\ last.rule.mode = "none"
  /\ last.name # ""
  /\ last.name \notin Range(last.rule.included)
  /\ last.name \in Range(rule.included)

\* C6: toggle on a 'custom' rule for a checked name returns 'none' with
\* empty included when the removal empties included, and otherwise 'custom'
\* with included equal to the previous included minus the name.
C6_CustomToggleOff ==
  (/\ last.op = "toggle"
   /\ last.rule.mode = "custom"
   /\ isCategoryChecked(last.rule, last.name)) =>
    IF Range(last.rule.included) \ {last.name} = {}
      THEN rule.mode = "none" /\ rule.included = <<>>
      ELSE /\ rule.mode = "custom"
           /\ last.name \notin Range(rule.included)
           /\ Range(rule.included) = Range(last.rule.included) \ {last.name}

\* the last included name of a 'custom' rule was unchecked
C6_Witness ==
  /\ last.op = "toggle"
  /\ last.rule.mode = "custom"
  /\ isCategoryChecked(last.rule, last.name)
  /\ rule.mode = "none"

C8_SelectAllClearAll ==
  /\ last.op = "selectAll" =>
       /\ rule = [mode |-> "all", excluded |-> <<>>, included |-> <<>>]
       /\ selected = Range(availableNames)
       /\ \A avail \in BoundedSeq(Names, MaxAvail) :
            applyRule(rule, avail) = Range(avail)
  /\ last.op = "clearAll" =>
       /\ rule = [mode |-> "none", excluded |-> <<>>, included |-> <<>>]
       /\ selected = {}
       /\ \A avail \in BoundedSeq(Names, MaxAvail) :
            applyRule(rule, avail) = {}

\* "select all" was pressed on a rule that selected nothing of the loaded
\* names
C8_Witness ==
  /\ last.op = "selectAll"
  /\ last.rule.mode # "all"
  /\ availableNames # <<>>
  /\ applyRule(last.rule, availableNames) = {}
  /\ selected = Range(availableNames)

\* the names the last load of items added to availableNames
NewNames == Range(availableNames) \ Range(last.avail)

\* C9: for an 'all' rule, a new name joining availableNames that is not in
\* excluded is selected, the rule is unchanged, and every name that was
\* available before is selected iff it was selected before.
C9_AllForwardCompatible ==
  (/\ last.op = "items"
   /\ last.rule.mode = "all"
   /\ Range(last.avail) \subseteq Range(availableNames)) =>
    /\ rule = last.rule
    /\ \A n \in NewNames : n \notin Range(last.rule.excluded) => n \in selected
    /\ \A m \in Range(last.avail) :
         m \in selected <=> m \in applyRule(last.rule, last.avail)

\* the rule excludes "A"; "B" arrived later and is selected
C9_Witness ==
  /\ last.op = "items"
  /\ rule.mode = "all"
  /\ rule.excluded = <<"A">>
  /\ "A" \in Range(last.avail)
  /\ NewNames = {"B"}
  /\ selected = {"B"}

\* C10: for a 'custom' or 'none' rule, a new name joining availableNames
\* that is not in included is never in the result of applyRule.
C10_CustomClosed ==
  (/\ last.op = "items"
   /\ last.rule.mode \in {"custom", "none"}) =>
    \A n \in NewNames : n \notin Range(rule.included) => n \notin selected

\* a 'custom' rule that lists "A" saw "B" arrive and still selects only "A"
C10_Witness ==
  /\ last.op = "items"
  /\ rule.mode = "custom"
  /\ rule.included = <<"A">>
  /\ "B" \in NewNames
  /\ selected = {"A"}

(* ---------------------------------------------------------------------- *)
(* Persisted rules: normalizeRule, loadBankCategoryRules,                  *)
(* saveBankCategoryRules                                                   *)
(* ---------------------------------------------------------------------- *)

\* longest excluded / included array of a stored rule
MaxStoredLen == 1

\* names that occur in stored rules
StoredNames == {"A", "B"}

\* an array-valued or not-array-valued property of a parsed object
ArrayValue(items) == [isArray |-> TRUE, items |-> items]

NotArray == [isArray |-> FALSE, items |-> <<>>]

PropertyValues ==
  {NotArray} \cup {ArrayValue(items) : items \in BoundedSeq(StoredNames, MaxStoredLen)}

\* values of the mode property: the three modes, or anything else
ModeValues == Modes \cup {"bogus"}

\* a parsed value that is not a rule object: undefined, null, a number, or
\* an array (an object without mode / excluded / included)
NonRule(t) == [t |-> t, mode |-> "bogus", excluded |-> NotArray, included |-> NotArray]

\* the JS object {mode, excluded, included}
RuleObject(mode, excluded, included) ==
  [t |-> "obj", mode |-> mode, excluded |-> excluded, included |-> included]

RuleValues ==
  {NonRule(t) : t \in {"undefined", "null", "number", "array"}}
  \cup {RuleObject(m, e, i) : m \in ModeValues, e \in PropertyValues, i \in PropertyValues}

\* a rule held in memory, seen as a JS value
AsValue(r) ==
  RuleObject(r.mode, ArrayValue(r.excluded), ArrayValue(r.included))

\* mutant: any invalid field replaces the whole rule by the default
normalizeRule_allOrNothing(value) ==
  IF value.t # "obj"
       \/ value.mode \notin {"all", "none", "custom"}
       \/ ~value.excluded.isArray
       \/ ~value.included.isArray
    THEN defaultRule
    ELSE [mode |-> value.mode, excluded |-> value.excluded.items,
          included |-> value.included.items]

\* !rule || typeof rule !== "object" gives the default; otherwise each field
\* is kept when valid and defaulted when not
normalizeRule(value) ==
  IF value.t \in {"undefined", "null"} \/ value.t = "number"
    THEN defaultRule
    ELSE [mode |-> IF value.mode = "all" \/ value.mode = "none" \/ value.mode = "custom"
                     THEN value.mode ELSE "all",
          excluded |-> IF value.excluded.isArray THEN value.excluded.items ELSE <<>>,
          included |-> IF value.included.isArray THEN value.included.items ELSE <<>>]

DefaultPair == [income |-> defaultRule, expense |-> defaultRule]

\* what localStorage holds under STORAGE_KEY: nothing, the empty string,
\* text that is not JSON, or JSON text (shown by the value it parses to)
Blob(t, income, expense) == [t |-> t, income |-> income, expense |-> expense]

NoDocument(t) == Blob(t, NonRule("undefined"), NonRule("undefined"))

Blobs ==
  {NoDocument(t) : t \in {"missing", "empty", "garbage", "json-null", "json-number"}}
  \cup {Blob("json-object", i, e) : i \in RuleValues, e \in RuleValues}

\* JSON.stringify({income, expense}) of two normalised rules
JSONstringify(pair) ==
  Blob("json-object", AsValue(pair.income), AsValue(pair.expense))

\* JSON.parse(raw): throws on text that is not JSON; parsed?.income and
\* parsed?.expense are undefined unless the text holds an object
JSONparse(raw) ==
  IF raw.t = "garbage"
    THEN [thrown |-> TRUE, income |-> NonRule("undefined"), expense |-> NonRule("undefined")]
    ELSE [thrown |-> FALSE, income |-> raw.income, expense |-> raw.expense]

\* the body of the try block of loadBankCategoryRules
LoadTry(e, raw) ==
  IF e = "denied"
    THEN [thrown |-> TRUE, value |-> DefaultPair]
  ELSE IF raw.t \in {"missing", "empty"}
    THEN [thrown |-> FALSE, value |-> DefaultPair]
  ELSE LET parsed == JSONparse(raw)
       IN IF parsed.thrown
            THEN [thrown |-> TRUE, value |-> DefaultPair]
            ELSE [thrown |-> FALSE,
                  value |-> [income |-> normalizeRule(parsed.income),
                             expense |-> normalizeRule(parsed.expense)]]

\* mutant: the try block has no catch
loadBankCategoryRules_noCatch(e, raw) ==
  IF e = "noWindow"
    THEN [raised |-> FALSE, value |-> DefaultPair]
    ELSE [raised |-> LoadTry(e, raw).thrown, value |-> LoadTry(e, raw).value]

\* e: "ok", "noWindow" (typeof window === "undefined"), "denied" (every
\* access to window.localStorage throws) or "full" (only setItem throws)
loadBankCategoryRules(e, raw) ==
  IF e = "noWindow"
    THEN [raised |-> FALSE, value |-> DefaultPair]
  ELSE IF LoadTry(e, raw).thrown
    THEN [raised |-> FALSE, value |-> DefaultPair]
    ELSE [raised |-> FALSE, value |-> LoadTry(e, raw).value]

\* mutant: the two directions are written under each other's key
saveBankCategoryRules_swapped(e, raw, rules, writeOk) ==
  IF e = "noWindow" \/ e = "denied" \/ ~writeOk
    THEN [raised |-> FALSE, wrote |-> FALSE, storage |-> raw]
    ELSE [raised |-> FALSE, wrote |-> TRUE,
          storage |-> JSONstringify([income |-> normalizeRule(AsValue(rules.expense)),
                                     expense |-> normalizeRule(AsValue(rules.income))])]

\* mutant: a failed write is not caught and the key is cleared first
saveBankCategoryRules_noCatch(e, raw, rules, writeOk) ==
  IF e = "noWindow"
    THEN [raised |-> FALSE, wrote |-> FALSE, storage |-> raw]
  ELSE IF e = "denied" \/ ~writeOk
    THEN [raised |-> TRUE, wrote |-> FALSE, storage |-> NoDocument("missing")]
    ELSE [raised |-> FALSE, wrote |-> TRUE,
          storage |-> JSONstringify([income |-> normalizeRule(AsValue(rules.income)),
                                     expense |-> normalizeRule(AsValue(rules.expense))])]

\* mutant: only the income rule is written, the stored expense rule is kept
saveBankCategoryRules_merge(e, raw, rules, writeOk) ==
  IF e = "noWindow" \/ e = "denied" \/ ~writeOk
    THEN [raised |-> FALSE, wrote |-> FALSE, storage |-> raw]
    ELSE [raised |-> FALSE, wrote |-> TRUE,
          storage |-> JSONstringify([income |-> normalizeRule(AsValue(rules.income)),
                                     expense |-> normalizeRule(JSONparse(raw).expense)])]

\* writeOk: whether setItem succeeds (it throws when the quota is exceeded);
\* a setItem that throws leaves the stored text as it was
saveBankCategoryRules(e, raw, rules, writeOk) ==
  IF e = "noWindow"
    THEN [raised |-> FALSE, wrote |-> FALSE, storage |-> raw]
  ELSE IF e = "denied" \/ ~writeOk
    THEN [raised |-> FALSE, wrote |-> FALSE, storage |-> raw]
    ELSE [raised |-> FALSE, wrote |-> TRUE,
          storage |-> JSONstringify([income |-> normalizeRule(AsValue(rules.income)),
                                     expense |-> normalizeRule(AsValue(rules.expense))])]

(* ---------------------------------------------------------------------- *)
(* The rule store on its own: load, then save and load again               *)
(* ---------------------------------------------------------------------- *)

VARIABLES
  env,      \* "ok", "noWindow" or "denied"
  storage,  \* the text under STORAGE_KEY
  mem,      \* the pair the last load returned
  lastS     \* the last call, its outcome and the storage before it

storeVars == <<env, storage, mem, lastS>>

StoreInit ==
  /\ env \in {"ok", "noWindow", "denied"}
  /\ storage \in Blobs
  /\ mem = DefaultPair
  /\ lastS = [op |-> "init", raised |-> FALSE, wrote |-> FALSE,
              before |-> storage, saved |-> DefaultPair, afterSave |-> FALSE]

\* loadBankCategoryRules()
StoreLoad ==
  LET res == loadBankCategoryRules(env, storage)
  IN /\ mem' = res.value
     /\ lastS' = [op |-> "load", raised |-> res.raised, wrote |-> FALSE,
                  before |-> storage, saved |-> lastS.saved,
                  afterSave |-> (lastS.op = "save" /\ lastS.wrote)]
     /\ UNCHANGED <<env, storage>>

\* saveBankCategoryRules(rules) with the pair in memory
StoreSave(writeOk) ==
  LET res == saveBankCategoryRules(env, storage, mem, writeOk)
  IN /\ lastS.op = "load"
     /\ storage' = res.storage
     /\ lastS' = [op |-> "save", raised |-> res.raised, wrote |-> res.wrote,
                  before |-> storage, saved |-> mem, afterSave |-> FALSE]
     /\ UNCHANGED <<env, mem>>

StoreNext ==
  \/ StoreLoad
  \/ \E writeOk \in BOOLEAN : StoreSave(writeOk)

(* ---------------------------------------------------------------------- *)
(* Report pages sharing the storage: BankCategoriesReport, BankMonthDetail *)
(* ---------------------------------------------------------------------- *)

\* pages (tabs) that can be open at the same time
Sessions == {1, 2}

\* names offered by the category checkboxes of a page
PageNames == {"A"}

\* the category names present in the items a page has loaded
PageAvailable == <<"A", "B">>

\* what the storage may hold when the first page opens
PageBlobs ==
  { NoDocument("missing"),
    NoDocument("garbage"),
    Blob("json-object",
         RuleObject("custom", ArrayValue(<<>>), ArrayValue(<<"A">>)),
         RuleObject("all", ArrayValue(<<"A">>), ArrayValue(<<>>))),
    Blob("json-object",
         RuleObject("none", ArrayValue(<<>>), ArrayValue(<<>>)),
         RuleObject("bogus", NotArray, ArrayValue(<<"A">>))) }

\* mutant: the effect passes the income rule for both directions
SaveEffectArg_typo(incomeRule, expenseRule) ==
  [income |-> incomeRule, expense |-> incomeRule]

\* the argument of the save effect: { income: incomeRule, expense: expenseRule }
SaveEffectArg(incomeRule, expenseRule) ==
  [income |-> incomeRule, expense |-> expenseRule]

VARIABLES
  sessions,  \* per page: open?, incomeRule, expenseRule, the selected sets
  lastP      \* the last handler run, the page it ran on, the storage before

pageVars == <<sessions, lastP>>

ClosedSession ==
  [open |-> FALSE, income |-> defaultRule, expense |-> defaultRule,
   selIncome |-> {}, selExpense |-> {}]

\* the state of a page after a render with the two rules
Rendered(incomeRule, expenseRule) ==
  [open |-> TRUE, income |-> incomeRule, expense |-> expenseRule,
   selIncome |-> applyRule(incomeRule, PageAvailable),
   selExpense |-> applyRule(expenseRule, PageAvailable)]

\* env is "ok" while setItem succeeds and "full" once the quota is exceeded
PageInit ==
  /\ env = "ok"
  /\ storage \in PageBlobs
  /\ mem = DefaultPair
  /\ lastS = [op |-> "idle"]
  /\ sessions = [s \in Sessions |-> ClosedSession]
  /\ lastP = [op |-> "init", s |-> 1, d |-> "income", wrote |-> FALSE,
              raised |-> FALSE, before |-> storage]

\* a render with new rules followed by the save effect
RenderAndSave(s, op, d, incomeRule, expenseRule) ==
  LET res == saveBankCategoryRules(env, storage,
                                   SaveEffectArg(incomeRule, expenseRule),
                                   env # "full")
  IN /\ storage' = res.storage
     /\ sessions' = [sessions EXCEPT ![s] = Rendered(incomeRule, expenseRule)]
     /\ lastP' = [op |-> op, s |-> s, d |-> d, wrote |-> res.wrote,
                  raised |-> res.raised, before |-> storage]
     /\ UNCHANGED <<env, mem, lastS>>

\* mount: both useState initialisers call loadBankCategoryRules(), then the
\* save effect runs for the first time
OpenPage(s) ==
  /\ ~sessions[s].open
  /\ RenderAndSave(s, "open", "income",
                   loadBankCategoryRules(env, storage).value.income,
                   loadBankCategoryRules(env, storage).value.expense)

\* toggleCategory(direction, name), then the save effect
PageToggle(s, d, name) ==
  /\ sessions[s].open
  /\ IF d = "income"
       THEN RenderAndSave(s, "toggle", d, toggleRule(sessions[s].income, name),
                          sessions[s].expense)
       ELSE RenderAndSave(s, "toggle", d, sessions[s].income,
                          toggleRule(sessions[s].expense, name))

\* selectAll(direction), then the save effect
PageSelectAll(s, d) ==
  /\ sessions[s].open
  /\ IF d = "income"
       THEN RenderAndSave(s, "selectAll", d, selectAllRule, sessions[s].expense)
       ELSE RenderAndSave(s, "selectAll", d, sessions[s].income, selectAllRule)

\* clearAll(direction), then the save effect
PageClearAll(s, d) ==
  /\ sessions[s].open
  /\ IF d = "income"
       THEN RenderAndSave(s, "clearAll", d, clearAllRule, sessions[s].expense)
       ELSE RenderAndSave(s, "clearAll", d, sessions[s].income, clearAllRule)

\* the origin's storage quota is used up: every later setItem throws
QuotaExceeded ==
  /\ env = "ok"
  /\ env' = "full"
  /\ UNCHANGED <<storage, mem, lastS, sessions, lastP>>

PageNext ==
  \/ \E s \in Sessions : OpenPage(s)
  \/ \E s \in Sessions, d \in {"income", "expense"}, name \in PageNames :
        PageToggle(s, d, name)
  \/ \E s \in Sessions, d \in {"income", "expense"} : PageSelectAll(s, d)
  \/ \E s \in Sessions, d \in {"income", "expense"} : PageClearAll(s, d)
  \/ QuotaExceeded

(* ---------------------------------------------------------------------- *)
(* Ranked monthly aggregation: chartData and the year summary              *)
(* ---------------------------------------------------------------------- *)

\* most rows in the income items of a response
MaxRows == 2

\* month keys ("YYYY-MM") in ascending string order
ChartMonths == {1, 2}

ChartNames == {"A", "B"}

\* item.total as Number(item.total || 0) reads it
Totals == {-1, 0, 1, 2}

Rows == [month : ChartMonths, name : ChartNames, total : Totals]

\* the name of a positional field that has no entry (null)
NoName == "<null>"

\* Array.from(new Set(items.map((item) => item.month))).sort()
RECURSIVE SortedMonths(_)
SortedMonths(S) ==
  IF S = {} THEN <<>>
  ELSE LET lo == CHOOSE x \in S : \A y \in S : x <= y
       IN <<lo>> \o SortedMonths(S \ {lo})

\* where sort((a, b) => b.value - a.value) puts x among sorted entries that
\* came before it in the array: after every entry that is not smaller
RECURSIVE InsertByValue(_, _)
InsertByValue(sorted, x) ==
  IF sorted = <<>> THEN <<x>>
  ELSE IF Head(sorted).value >= x.value
    THEN <<Head(sorted)>> \o InsertByValue(Tail(sorted), x)
    ELSE <<x>> \o sorted

\* Array.prototype.sort((a, b) => b.value - a.value): descending by value,
\* stable, so entries of equal value keep the order they have in the array
RECURSIVE SortByValue(_)
SortByValue(entries) ==
  IF entries = <<>> THEN <<>>
  ELSE InsertByValue(SortByValue(SubSeq(entries, 1, Len(entries) - 1)),
                     entries[Len(entries)])

\* .map((item) => ({ name: item.name, value: Number(item.total || 0) }))
StackEntries(rows) ==
  [i \in 1..Len(rows) |-> [name |-> rows[i].name, value |-> rows[i].total]]

\* mutant: entries that are not positive stay in the stack
Stack_keepAll(rows, month, selectedNames) ==
  SortByValue(
    StackEntries(SelectSeq(rows, LAMBDA item :
                   item.month = month /\ item.name \in selectedNames)))

\* incomeStack / expenseStack of one month
Stack(rows, month, selectedNames) ==
  SortByValue(
    SelectSeq(
      StackEntries(SelectSeq(rows, LAMBDA item :
                     item.month = month /\ item.name \in selectedNames)),
      LAMBDA item : item.value > 0))

\* stack.reduce((sum, item) => sum + item.value, 0)
RECURSIVE SumValues(_)
SumValues(entries) ==
  IF entries = <<>> THEN 0
  ELSE entries[1].value + SumValues(Tail(entries))

\* rows.reduce((sum, item) => sum + Number(item.total || 0), 0)
RECURSIVE SumTotals(_)
SumTotals(rows) ==
  IF rows = <<>> THEN 0
  ELSE rows[1].total + SumTotals(Tail(rows))

\* Math.max over a list of lengths, starting from 0
RECURSIVE MaxOf(_)
MaxOf(lengths) ==
  IF lengths = <<>> THEN 0
  ELSE LET rest == MaxOf(Tail(lengths))
       IN IF Head(lengths) > rest THEN Head(lengths) ELSE rest

\* mutant: a month gets positional fields for its own entries only
PositionalFields_noPadding(stack, maxRanks) ==
  [i \in 1..Len(stack) |-> [value |-> stack[i].value, name |-> stack[i].name]]

\* entry[`income_rank_${i}`] and entry[`income_rank_${i}_name`] for
\* i < maxRanks (field i of the code is element i + 1 here)
PositionalFields(stack, maxRanks) ==
  [i \in 1..maxRanks |->
     IF i <= Len(stack)
       THEN [value |-> stack[i].value, name |-> stack[i].name]
       ELSE [value |-> 0, name |-> NoName]]

\* the chartData memo
chartData(cashflowItems, incomeItems, expenseItems, selectedIncome, selectedExpense) ==
  LET months == SortedMonths(Range(cashflowItems))
      incomeStacks == [k \in 1..Len(months) |->
                         Stack(incomeItems, months[k], selectedIncome)]
      expenseStacks == [k \in 1..Len(months) |->
                          Stack(expenseItems, months[k], selectedExpense)]
      maxIncomeRanks == MaxOf([k \in 1..Len(months) |-> Len(incomeStacks[k])])
      maxExpenseRanks == MaxOf([k \in 1..Len(months) |-> Len(expenseStacks[k])])
  IN [k \in 1..Len(months) |->
        [month |-> months[k],
         incomeTotal |-> SumValues(incomeStacks[k]),
         expenseTotal |-> SumValues(expenseStacks[k]),
         incomeStack |-> incomeStacks[k],
         expenseStack |-> expenseStacks[k],
         incomeRanks |-> PositionalFields(incomeStacks[k], maxIncomeRanks),
         expenseRanks |-> PositionalFields(expenseStacks[k], maxExpenseRanks)]]

\* while (entry[`income_rank_${count}`] > 0 || entry[`income_rank_${count}_name`])
\* count += 1: the filled fields counted from field 0; a field that does not
\* exist is undefined and ends the loop
RECURSIVE RankCount(_, _)
RankCount(ranks, count) ==
  IF count + 1 <= Len(ranks)
       /\ (ranks[count + 1].value > 0
           \/ (ranks[count + 1].name # NoName /\ ranks[count + 1].name # ""))
    THEN RankCount(ranks, count + 1)
    ELSE count

\* the maxIncomeRanks / maxExpenseRanks memos of the page
MaxRanks(rankFields) ==
  MaxOf([k \in 1..Len(rankFields) |-> RankCount(rankFields[k], 0)])

\* yearIncomeTotal / yearExpenseTotal
YearTotal(rows, selectedNames) ==
  SumTotals(SelectSeq(rows, LAMBDA item : item.name \in selectedNames))

\* a / b of two numbers, kept as the pair so that no rounding is modelled
Quotient(num, den) == [num |-> num, den |-> den]

\* two quotients are the same number
SameQuotient(a, b) == a.num * b.den = b.num * a.den

\* activeMonthCount = chartData.length || 1
ActiveMonthCount(data) == IF Len(data) = 0 THEN 1 ELSE Len(data)

\* every memo of a render of the page
RenderChart(cashflowItems, incomeItems, expenseItems, incomeRule, expenseRule) ==
  LET incomeAvailableNames ==
        SortedDistinct({incomeItems[i].name : i \in DOMAIN incomeItems})
      expenseAvailableNames ==
        SortedDistinct({expenseItems[i].name : i \in DOMAIN expenseItems})
      selectedIncome == applyRule(incomeRule, incomeAvailableNames)
      selectedExpense == applyRule(expenseRule, expenseAvailableNames)
      data == chartData(cashflowItems, incomeItems, expenseItems,
                        selectedIncome, selectedExpense)
  IN [incomeAvailableNames |-> incomeAvailableNames,
      expenseAvailableNames |-> expenseAvailableNames,
      selectedIncome |-> selectedIncome,
      selectedExpense |-> selectedExpense,
      chartData |-> data,
      yearIncomeTotal |-> YearTotal(incomeItems, selectedIncome),
      yearExpenseTotal |-> YearTotal(expenseItems, selectedExpense),
      activeMonthCount |-> ActiveMonthCount(data),
      averageIncomeMonthly |->
        Quotient(YearTotal(incomeItems, selectedIncome), ActiveMonthCount(data)),
      averageExpenseMonthly |->
        Quotient(YearTotal(expenseItems, selectedExpense), ActiveMonthCount(data)),
      maxIncomeRanks |-> MaxRanks([k \in 1..Len(data) |-> data[k].incomeRanks]),
      maxExpenseRanks |-> MaxRanks([k \in 1..Len(data) |-> data[k].expenseRanks])]

\* the months of the cashflow items of a response, as they arrive
CashflowSamples == {<<>>, <<1>>, <<2, 1, 2>>}

\* the expense items of a response
ExpenseSamples ==
  { <<>>,
    << [month |-> 1, name |-> "A", total |-> 2],
       [month |-> 1, name |-> "B", total |-> 1],
       [month |-> 2, name |-> "B", total |-> 2] >> }

\* the rules the page may have loaded
IncomeRuleSamples ==
  { defaultRule,
    [mode |-> "all", excluded |-> <<"B">>, included |-> <<>>],
    [mode |-> "custom", excluded |-> <<>>, included |-> <<"A">>] }

ExpenseRuleSamples ==
  { defaultRule,
    [mode |-> "custom", excluded |-> <<>>, included |-> <<"B">>] }

VARIABLES
  items,       \* cashflowItems (months), incomeItems, expenseItems
  chartRules,  \* incomeRule, expenseRule
  view         \* the memos of the last render

chartVars == <<items, chartRules, view>>

NoItems == [loaded |-> FALSE, cashflow |-> <<>>, income |-> <<>>, expense |-> <<>>]

\* the page after mount: no items yet, the rules as loaded
ChartInit ==
  /\ items = NoItems
  /\ chartRules \in [income : IncomeRuleSamples, expense : ExpenseRuleSamples]
  /\ view = RenderChart(<<>>, <<>>, <<>>, chartRules.income, chartRules.expense)

\* loadData: the three responses arrive, the items are set and the page
\* renders again
DataLoaded(cashflowItems, incomeItems, expenseItems) ==
  /\ ~items.loaded
  /\ items' = [loaded |-> TRUE, cashflow |-> cashflowItems,
               income |-> incomeItems, expense |-> expenseItems]
  /\ view' = RenderChart(cashflowItems, incomeItems, expenseItems,
                         chartRules.income, chartRules.expense)
  /\ UNCHANGED chartRules

ChartNext ==
  \E cashflowItems \in CashflowSamples,
     incomeItems \in BoundedSeq(Rows, MaxRows),
     expenseItems \in ExpenseSamples :
       DataLoaded(cashflowItems, incomeItems, expenseItems)

(* ---------------------------------------------------------------------- *)
(* Category trend (BankCategoriesReport) and month detail (BankMonthDetail) *)
(* ---------------------------------------------------------------------- *)

\* trendMonths: the twelve months of the selected year, January first
TrendMonths == [i \in 1..12 |-> i]

\* trendSelection = null
NoSelection == [direction |-> "none", name |-> NoName]

\* a month entry that is null (trendHighest / trendLowest)
NoEntry == [month |-> 0, total |-> 0]

\* Map.prototype.set(key, value)
MapSet(map, key, value) ==
  [k \in DOMAIN map \cup {key} |-> IF k = key THEN value ELSE map[k]]

\* map.get(key) || 0
MapGetOrZero(map, key) == IF key \in DOMAIN map THEN map[key] ELSE 0

\* the empty Map
EmptyMap == [k \in {} |-> 0]

\* source.filter(name).forEach((item) => totals.set(item.month, total)):
\* a later row of the same month replaces the earlier one
RECURSIVE TrendTotalsOf(_, _)
TrendTotalsOf(source, name) ==
  IF source = <<>> THEN EmptyMap
  ELSE LET item == source[Len(source)]
           before == TrendTotalsOf(SubSeq(source, 1, Len(source) - 1), name)
       IN IF item.name = name THEN MapSet(before, item.month, item.total)
                              ELSE before

\* mutant: a month without a row takes the total of the month before it
RECURSIVE TrendEntries_carryForward(_, _)
TrendEntries_carryForward(totals, n) ==
  IF n = 0 THEN <<>>
  ELSE LET before == TrendEntries_carryForward(totals, n - 1)
       IN Append(before,
                 [month |-> TrendMonths[n],
                  total |-> IF TrendMonths[n] \in DOMAIN totals
                              THEN totals[TrendMonths[n]]
                              ELSE IF n = 1 THEN 0 ELSE before[n - 1].total])

\* trendMonths.map((month) => ({ month, total: totals.get(month) || 0 })),
\* the first n months
TrendEntries(totals, n) ==
  [i \in 1..n |-> [month |-> TrendMonths[i],
                   total |-> MapGetOrZero(totals, TrendMonths[i])]]

\* trendSeries
trendSeries(trendSelection, incomeItems, expenseItems) ==
  IF trendSelection = NoSelection THEN <<>>
  ELSE LET source == IF trendSelection.direction = "income"
                       THEN incomeItems ELSE expenseItems
       IN TrendEntries(TrendTotalsOf(source, trendSelection.name), Len(TrendMonths))

\* mutant: every month with a non-zero total is active
trendActiveSeries_nonZero(series) ==
  SelectSeq(series, LAMBDA item : item.total # 0)

\* trendActiveSeries
trendActiveSeries(series) ==
  SelectSeq(series, LAMBDA item : item.total > 0)

\* trendTotal
trendTotal(active) == SumTotals(active)

\* trendAverage = trendTotal / (trendActiveSeries.length || 1)
trendAverage(total, active) ==
  Quotient(total, IF Len(active) = 0 THEN 1 ELSE Len(active))

\* mutant: a later month of the same total replaces the earlier one
RECURSIVE ReduceMax_lastWins(_, _)
ReduceMax_lastWins(active, max) ==
  IF active = <<>> THEN max
  ELSE ReduceMax_lastWins(Tail(active),
                          IF Head(active).total >= max.total THEN Head(active) ELSE max)

\* reduce((max, item) => (item.total > max.total ? item : max), max)
RECURSIVE ReduceMax(_, _)
ReduceMax(active, max) ==
  IF active = <<>> THEN max
  ELSE ReduceMax(Tail(active),
                 IF Head(active).total > max.total THEN Head(active) ELSE max)

\* reduce((min, item) => (item.total < min.total ? item : min), min)
RECURSIVE ReduceMin(_, _)
ReduceMin(active, min) ==
  IF active = <<>> THEN min
  ELSE ReduceMin(Tail(active),
                 IF Head(active).total < min.total THEN Head(active) ELSE min)

\* trendHighest
trendHighest(active) ==
  IF Len(active) = 0 THEN NoEntry ELSE ReduceMax(active, active[1])

\* trendLowest
trendLowest(active) ==
  IF Len(active) = 0 THEN NoEntry ELSE ReduceMin(active, active[1])

\* the trend panel as rendered from the page state
RenderTrend(trendSelection, incomeItems, expenseItems) ==
  LET series == trendSeries(trendSelection, incomeItems, expenseItems)
      active == trendActiveSeries(series)
  IN [trendSeries |-> series,
      trendActiveSeries |-> active,
      trendTotal |-> trendTotal(active),
      trendAverage |-> trendAverage(trendTotal(active), active),
      trendHighest |-> trendHighest(active),
      trendLowest |-> trendLowest(active)]

\* totals.set(item.name, (totals.get(item.name) || 0) + value) over the rows
\* of the month, kept as the list of Map entries in insertion order
RECURSIVE MonthSums(_, _)
MonthSums(rows, monthKey) ==
  IF rows = <<>> THEN <<>>
  ELSE LET item == rows[Len(rows)]
           before == MonthSums(SubSeq(rows, 1, Len(rows) - 1), monthKey)
       IN IF item.month # monthKey THEN before
          ELSE IF \E i \in DOMAIN before : before[i].name = item.name
            THEN [i \in DOMAIN before |->
                    IF before[i].name = item.name
                      THEN [before[i] EXCEPT !.value = @ + item.total]
                      ELSE before[i]]
            ELSE Append(before, [name |-> item.name, value |-> item.total])

\* monthIncomeCategories / monthExpenseCategories: one entry per name with
\* the sum of its rows, sorted by (a, b) => b.total - a.total
monthCategories(rows, monthKey) ==
  LET sorted == SortByValue(MonthSums(rows, monthKey))
  IN [i \in DOMAIN sorted |-> [name |-> sorted[i].name, total |-> sorted[i].value]]

\* monthIncomeTotal / monthExpenseTotal
monthTotal(categories, selectedNames) ==
  SumTotals(SelectSeq(categories, LAMBDA item : item.name \in selectedNames))

(* ---------------------------------------------------------------------- *)
(* The trend panel of the report page                                      *)
(* ---------------------------------------------------------------------- *)

\* the categories whose name can be clicked in the two lists
TrendSelections == [direction : {"income", "expense"}, name : ChartNames]

\* the expense rows of a response
TrendExpenseSamples ==
  { <<>>,
    << [month |-> 2, name |-> "A", total |-> 2],
       [month |-> 1, name |-> "A", total |-> 1] >> }

VARIABLES
  trendItems,      \* incomeItems, expenseItems (React state)
  trendSelected,   \* trendSelection (React state)
  trendView        \* trendSeries and the memos computed from it

trendVars == <<trendItems, trendSelected, trendView>>

NoTrendItems == [loaded |-> FALSE, income |-> <<>>, expense |-> <<>>]

TrendInit ==
  /\ trendItems = NoTrendItems
  /\ trendSelected = NoSelection
  /\ trendView = RenderTrend(NoSelection, <<>>, <<>>)

\* loadData: setExpenseItems, setIncomeItems, and the memos are recomputed
TrendDataLoaded(incomeItems, expenseItems) ==
  /\ ~trendItems.loaded
  /\ trendItems' = [loaded |-> TRUE, income |-> incomeItems, expense |-> expenseItems]
  /\ trendView' = RenderTrend(trendSelected, incomeItems, expenseItems)
  /\ UNCHANGED trendSelected

\* handleTrendSelect(direction, name): setTrendSelection({ direction, name })
handleTrendSelect(direction, name) ==
  LET selection == [direction |-> direction, name |-> name]
  IN /\ trendSelected # selection
     /\ trendSelected' = selection
     /\ trendView' = RenderTrend(selection, trendItems.income, trendItems.expense)
     /\ UNCHANGED trendItems

TrendNext ==
  \/ \E incomeItems \in BoundedSeq(Rows, MaxRows), expenseItems \in TrendExpenseSamples :
       TrendDataLoaded(incomeItems, expenseItems)
  \/ \E selection \in TrendSelections :
       handleTrendSelect(selection.direction, selection.name)

(* ---------------------------------------------------------------------- *)
(* The requests of the report page: loadYears and loadData                 *)
(* ---------------------------------------------------------------------- *)

\* how many loadData requests are followed
MaxRequests == 3

\* the years a user can type or the server can list
FetchYears == {1, 2, 3}

\* payload.years of the years response
AvailableYears == {<<>>, <<1>>, <<1, 2>>, <<2, 3>>}

\* the three item lists the server returns for a year, named by the year
\* (0: the empty lists the page starts with)
ResponseFor(y) == [cashflow |-> y, expense |-> y, income |-> y]

VARIABLES
  year,          \* year (React state)
  yearsRequest,  \* "pending" until the loadYears response has been handled
  loads,         \* the loadData calls whose responses have not arrived
  held,          \* cashflowItems, expenseItems, incomeItems (React state)
  fetchLog       \* the year at mount, requests issued, whether one failed

fetchVars == <<year, yearsRequest, loads, held, fetchLog>>

\* mount: the first render runs loadYears() and loadData() for the initial year
FetchInit ==
  /\ year \in FetchYears
  /\ yearsRequest = "pending"
  /\ loads = {[id |-> 1, year |-> year]}
  /\ held = ResponseFor(0)
  /\ fetchLog = [initialYear |-> year, issued |-> 1, failed |-> FALSE]

\* loadData after the awaits: setCashflowItems, setExpenseItems,
\* setIncomeItems with the payloads of the year the call was started for
LoadDataOk(request) ==
  /\ request \in loads
  /\ loads' = loads \ {request}
  /\ held' = ResponseFor(request.year)
  /\ UNCHANGED <<year, yearsRequest, fetchLog>>

\* a response that is not ok, or a rejected fetch: setError, items are kept
LoadDataFailed(request) ==
  /\ request \in loads
  /\ loads' = loads \ {request}
  /\ fetchLog' = [fetchLog EXCEPT !.failed = TRUE]
  /\ UNCHANGED <<year, yearsRequest, held>>

\* setYear(y) with y different from the state, and the [year] effect that
\* follows the render: a new loadData call; calls in flight are left alone
SetYear(y) ==
  /\ y # year
  /\ fetchLog.issued < MaxRequests
  /\ year' = y
  /\ loads' = loads \cup {[id |-> fetchLog.issued + 1, year |-> y]}
  /\ fetchLog' = [fetchLog EXCEPT !.issued = @ + 1]
  /\ UNCHANGED held

\* onChange of the year input
YearInput(y) ==
  /\ SetYear(y)
  /\ UNCHANGED yearsRequest

\* loadYears after its await; the closure holds the year of the first render
LoadYearsOk(available) ==
  /\ yearsRequest = "pending"
  /\ yearsRequest' = "done"
  /\ IF Len(available) > 0 /\ ~Includes(available, fetchLog.initialYear)
          /\ available[Len(available)] # year
       THEN SetYear(available[Len(available)])
       ELSE UNCHANGED <<year, loads, held, fetchLog>>

\* loadYears when the response is not ok: return
LoadYearsNotOk ==
  /\ yearsRequest = "pending"
  /\ yearsRequest' = "done"
  /\ UNCHANGED <<year, loads, held, fetchLog>>

FetchNext ==
  \/ \E request \in loads : LoadDataOk(request)
  \/ \E request \in loads : LoadDataFailed(request)
  \/ \E y \in FetchYears : YearInput(y)
  \/ \E available \in AvailableYears : LoadYearsOk(available)
  \/ LoadYearsNotOk

(* ---------------------------------------------------------------------- *)
(* Properties of the rule store                                            *)
(* ---------------------------------------------------------------------- *)

Directions == {"income", "expense"}

Other(d) == IF d = "income" THEN "expense" ELSE "income"

\* a rule with one of the three modes and two lists
WellFormedRule(r) ==
  /\ r.mode \in {"all", "none", "custom"}
  /\ r.excluded \in Seq(StoredNames)
  /\ r.included \in Seq(StoredNames)

\* C11: load never raises, whatever the storage holds or does, and returns
\* a pair in which each rule has one of the three modes and list-valued
\* excluded and included.
C11_LoadNeverRaises ==
  lastS.op = "load" =>
    /\ ~lastS.raised
    /\ DOMAIN mem = Directions
    /\ \A d \in Directions : WellFormedRule(mem[d])

\* the storage holds text that is not JSON, or cannot be read at all, and
\* load returned the defaults
C11_Witness ==
  /\ lastS.op = "load"
  /\ env = "denied" \/ (env = "ok" /\ lastS.before.t = "garbage")
  /\ mem = DefaultPair

\* a stored value that is a rule object with a recognised mode and two lists
ValidStored(v) ==
  /\ v.t = "obj"
  /\ v.mode \in {"all", "none", "custom"}
  /\ v.excluded.isArray
  /\ v.included.isArray

\* the blob parsed, direction d is invalid and the other direction is valid
OneDirectionInvalid(d) ==
  /\ lastS.op = "load"
  /\ env = "ok"
  /\ lastS.before.t = "json-object"
  /\ ~ValidStored(lastS.before[d])
  /\ ValidStored(lastS.before[Other(d)])

C13_SaveLoadRoundTrip ==
  (lastS.op = "load" /\ lastS.afterSave) =>
    \A d \in Directions :
      /\ mem[d].mode = lastS.saved[d].mode
      /\ \A avail \in BoundedSeq(StoredNames, MaxAvail) :
           applyRule(mem[d], avail) = applyRule(lastS.saved[d], avail)

\* two different rules were saved and loaded back
C13_Witness ==
  /\ lastS.op = "load"
  /\ lastS.afterSave
  /\ lastS.saved.income.mode = "custom"
  /\ lastS.saved.income.included # <<>>
  /\ lastS.saved.expense.mode = "all"
  /\ lastS.saved.expense.excluded # <<>>
  /\ mem = lastS.saved

(* ---------------------------------------------------------------------- *)
(* Properties of the pages sharing the storage                             *)
(* ---------------------------------------------------------------------- *)

Mutations == {"toggle", "selectAll", "clearAll"}

\* the JSON text of the two rules a page holds in memory
BlobOf(session) ==
  Blob("json-object", AsValue(session.income), AsValue(session.expense))

\* C14: when the write fails, save raises nothing, the stored blob is left
\* as it was, and the rules in memory keep driving applyRule on every page.
C14_FailedWriteIsSwallowed ==
  (lastP.op \in Mutations \cup {"open"} /\ ~lastP.wrote) =>
    /\ ~lastP.raised
    /\ storage = lastP.before
    /\ \A s \in Sessions :
         sessions[s].open =>
           /\ sessions[s].selIncome = applyRule(sessions[s].income, PageAvailable)
           /\ sessions[s].selExpense = applyRule(sessions[s].expense, PageAvailable)

\* the quota is exceeded, a toggle changed the income rule in memory only,
\* and the selection follows the rule in memory, not the stored one
C14_Witness ==
  /\ env = "full"
  /\ lastP.op = "toggle"
  /\ lastP.d = "income"
  /\ ~lastP.wrote
  /\ storage.t = "json-object"
  /\ storage.income # AsValue(sessions[lastP.s].income)
  /\ sessions[lastP.s].selIncome
       # applyRule(normalizeRule(storage.income), PageAvailable)

\* only the page of the last handler has been opened
SinglePage == \A s \in Sessions : sessions[s].open => s = lastP.s

\* C15: in a single page session with working storage, after every toggle,
\* selectAll or clearAll the stored blob is the normalised pair in memory,
\* and the stored rule of the other direction is the one stored before.
C15_StoredAfterEveryMutation ==
  (lastP.op \in Mutations /\ env = "ok" /\ SinglePage) =>
    /\ storage = BlobOf(sessions[lastP.s])
    /\ storage[Other(lastP.d)] = lastP.before[Other(lastP.d)]

\* the expense rule was toggled: the stored expense rule changed, the stored
\* income rule (a 'custom' rule) did not
C15_Witness ==
  /\ lastP.op = "toggle"
  /\ lastP.d = "expense"
  /\ env = "ok"
  /\ SinglePage
  /\ lastP.before.t = "json-object"
  /\ storage.expense # lastP.before.expense
  /\ storage.income = lastP.before.income
  /\ storage.income.mode = "custom"

\* C16: when two pages have loaded the pair and each mutates and saves, the
\* stored blob is the whole pair in memory of the page that saved last;
\* nothing of the earlier save is kept.
C16_LastWriterWins ==
  (/\ lastP.op \in Mutations
   /\ lastP.wrote
   /\ \A s \in Sessions : sessions[s].open) =>
    storage = BlobOf(sessions[lastP.s])

\* the storage held the pair of page 1; page 2 then changed its expense
\* rule, and its save replaced the stored income rule as well, by its own
C16_Witness ==
  /\ lastP.op \in Mutations
  /\ lastP.wrote
  /\ lastP.s = 2
  /\ lastP.d = "expense"
  /\ sessions[1].open
  /\ lastP.before = BlobOf(sessions[1])
  /\ sessions[1].income # sessions[2].income
  /\ storage.income = AsValue(sessions[2].income)
  /\ storage.income # lastP.before.income

(* ---------------------------------------------------------------------- *)
(* Properties of the ranked aggregation                                    *)
(* ---------------------------------------------------------------------- *)

\* how often the entry {name, value} occurs in a stack
CountInStack(stack, name, value) ==
  Cardinality({i \in DOMAIN stack : stack[i].name = name /\ stack[i].value = value})

\* how many rows of the month have that name and that total
CountInRows(rows, month, name, value) ==
  Cardinality({i \in DOMAIN rows :
                 rows[i].month = month /\ rows[i].name = name /\ rows[i].total = value})

\* the stack holds exactly the rows of the month that are selected and
\* positive, by non-increasing value
StackIsRanked(stack, ranks, rows, month, r, avail) ==
  /\ \A name \in ChartNames, value \in Totals :
       CountInStack(stack, name, value) =
         (IF name \in ExpectedSelection(r, avail) /\ value > 0
            THEN CountInRows(rows, month, name, value) ELSE 0)
  /\ \A i \in DOMAIN stack :
       /\ stack[i].value > 0
       /\ stack[i].name \in ChartNames
       /\ stack[i].value \in Totals
  /\ \A i, j \in DOMAIN stack : i < j => stack[i].value >= stack[j].value
  /\ \A i \in DOMAIN ranks :
       ranks[i].name \in ExpectedSelection(r, avail) \cup {NoName}

\* C17: for every month of the series and each direction, the stack is
\* exactly the raw rows of the month whose name the rule selects and whose
\* total is positive, by non-increasing value; every entry is positive and
\* no unselected category is in a stack or a positional field.
C17_StacksAreFilteredAndRanked ==
  items.loaded =>
    \A k \in DOMAIN view.chartData :
      LET entry == view.chartData[k]
      IN /\ StackIsRanked(entry.incomeStack, entry.incomeRanks, items.income,
                          entry.month, chartRules.income, view.incomeAvailableNames)
         /\ StackIsRanked(entry.expenseStack, entry.expenseRanks, items.expense,
                          entry.month, chartRules.expense, view.expenseAvailableNames)

\* the income rows arrive smallest first and are ranked largest first, and
\* the expense rule leaves out a category that has positive rows
C17_Witness ==
  /\ items.loaded
  /\ items.income = << [month |-> 1, name |-> "A", total |-> 1],
                       [month |-> 1, name |-> "B", total |-> 2] >>
  /\ Len(view.chartData) = 2
  /\ view.chartData[1].incomeStack =
       << [name |-> "B", value |-> 2], [name |-> "A", value |-> 1] >>
  /\ chartRules.expense.mode = "custom"
  /\ view.chartData[1].expenseStack = << [name |-> "B", value |-> 1] >>

\* entries of equal value are in ascending name order
TiesByName(stack) ==
  \A i, j \in DOMAIN stack :
    (i < j /\ stack[i].value = stack[j].value) =>
      NameRank(stack[i].name) <= NameRank(stack[j].name)

\* C18: two selected categories with equal positive value in the same month
\* are placed in ascending name order, whatever the order of their rows in
\* the raw input.
C18_TiesInNameOrder ==
  items.loaded =>
    \A k \in DOMAIN view.chartData :
      /\ TiesByName(view.chartData[k].incomeStack)
      /\ TiesByName(view.chartData[k].expenseStack)

\* the slot of a month at an index: the stack entry, or 0 and null
SlotsMatch(stack, ranks, maxRanks) ==
  /\ Len(ranks) = maxRanks
  /\ \A i \in 1..maxRanks :
       IF i <= Len(stack)
         THEN ranks[i].value = stack[i].value /\ ranks[i].name = stack[i].name
         ELSE ranks[i].value = 0 /\ ranks[i].name = NoName

\* the largest stack length over the months, per direction
LongestIncomeStack ==
  IF view.chartData = <<>> THEN 0
  ELSE CHOOSE n \in 0..MaxRows + 3 :
         /\ \E k \in DOMAIN view.chartData : Len(view.chartData[k].incomeStack) = n
         /\ \A k \in DOMAIN view.chartData : Len(view.chartData[k].incomeStack) <= n

LongestExpenseStack ==
  IF view.chartData = <<>> THEN 0
  ELSE CHOOSE n \in 0..MaxRows + 3 :
         /\ \E k \in DOMAIN view.chartData : Len(view.chartData[k].expenseStack) = n
         /\ \A k \in DOMAIN view.chartData : Len(view.chartData[k].expenseStack) <= n

\* C19: the output has one entry per month of the series, in ascending
\* month order, months with an empty stack included; per direction maxRanks
\* is the largest stack length, and every month has positional fields for
\* every index below maxRanks: the stack entry where there is one, value 0
\* and name null otherwise.
C19_PaddedToMaxRanks ==
  items.loaded =>
    /\ {view.chartData[k].month : k \in DOMAIN view.chartData} = Range(items.cashflow)
    /\ Len(view.chartData) = Cardinality(Range(items.cashflow))
    /\ \A k, l \in DOMAIN view.chartData :
         k < l => view.chartData[k].month < view.chartData[l].month
    /\ view.maxIncomeRanks = LongestIncomeStack
    /\ view.maxExpenseRanks = LongestExpenseStack
    /\ \A k \in DOMAIN view.chartData :
         /\ SlotsMatch(view.chartData[k].incomeStack, view.chartData[k].incomeRanks,
                       view.maxIncomeRanks)
         /\ SlotsMatch(view.chartData[k].expenseStack, view.chartData[k].expenseRanks,
                       view.maxExpenseRanks)

\* month 1 has two income entries and month 2 none, so month 2 is padded with
\* two empty slots; the expense side has one slot per month
C19_Witness ==
  /\ items.loaded
  /\ items.cashflow = <<2, 1, 2>>
  /\ Len(view.chartData) = 2
  /\ Len(view.chartData[1].incomeStack) = 2
  /\ view.chartData[2].incomeStack = <<>>
  /\ view.chartData[2].incomeRanks =
       << [value |-> 0, name |-> NoName], [value |-> 0, name |-> NoName] >>
  /\ view.maxIncomeRanks = 2
  /\ view.maxExpenseRanks = 1

RECURSIVE SumIncomeTotals(_)
SumIncomeTotals(data) ==
  IF data = <<>> THEN 0 ELSE data[1].incomeTotal + SumIncomeTotals(Tail(data))

RECURSIVE SumExpenseTotals(_)
SumExpenseTotals(data) ==
  IF data = <<>> THEN 0 ELSE data[1].expenseTotal + SumExpenseTotals(Tail(data))

\* C20: for each direction, the total of the year summary is the sum over
\* the months of the charted series of the values of the month's stack,
\* i.e. the sum of the incomeTotal / expenseTotal fields.
C20_YearTotalIsSumOfMonths ==
  items.loaded =>
    /\ view.yearIncomeTotal = SumIncomeTotals(view.chartData)
    /\ view.yearExpenseTotal = SumExpenseTotals(view.chartData)
    /\ \A k \in DOMAIN view.chartData :
         /\ view.chartData[k].incomeTotal = SumValues(view.chartData[k].incomeStack)
         /\ view.chartData[k].expenseTotal = SumValues(view.chartData[k].expenseStack)

(* ---------------------------------------------------------------------- *)
(* Properties of the totals and averages                                   *)
(* ---------------------------------------------------------------------- *)

\* the rows with every negative total read as 0
NegativesAsZero(rows) ==
  [i \in DOMAIN rows |-> IF rows[i].total < 0 THEN [rows[i] EXCEPT !.total = 0]
                                               ELSE rows[i]]

\* the totals reported for one direction do not change when the negative
\* totals of the rows are replaced by 0
NegativesCountAsZero(rows, selectedNames, yearTotal) ==
  /\ yearTotal = YearTotal(NegativesAsZero(rows), selectedNames)
  /\ \A month \in ChartMonths :
       /\ Stack(rows, month, selectedNames) =
            Stack(NegativesAsZero(rows), month, selectedNames)
       /\ monthTotal(monthCategories(rows, month), selectedNames) =
            monthTotal(monthCategories(NegativesAsZero(rows), month), selectedNames)
  /\ \A name \in ChartNames :
       LET selection == [direction |-> "income", name |-> name]
       IN RenderTrend(selection, rows, <<>>).trendTotal =
            RenderTrend(selection, NegativesAsZero(rows), <<>>).trendTotal

\* C21: a raw row with a negative total is treated as 0 everywhere: it is
\* not in the month's stack and it does not lower the year total, the month
\* total or the trend total.
C21_NegativeTotalsAreZero ==
  items.loaded =>
    /\ NegativesCountAsZero(items.income, view.selectedIncome, view.yearIncomeTotal)
    /\ NegativesCountAsZero(items.expense, view.selectedExpense, view.yearExpenseTotal)

\* the months of the chart in which the direction has a non-zero total
ActiveIncomeMonths ==
  {k \in DOMAIN view.chartData : view.chartData[k].incomeTotal # 0}

ActiveExpenseMonths ==
  {k \in DOMAIN view.chartData : view.chartData[k].expenseTotal # 0}

\* max(1, n)
AtLeastOne(n) == IF n < 1 THEN 1 ELSE n

\* C23: the average monthly income (expense) of the year summary is the
\* year total of the selected categories divided by max(1, number of months
\* in which the direction's selected total is non-zero).
C23_AverageOverActiveMonths ==
  items.loaded =>
    /\ SameQuotient(view.averageIncomeMonthly,
                    Quotient(view.yearIncomeTotal,
                             AtLeastOne(Cardinality(ActiveIncomeMonths))))
    /\ SameQuotient(view.averageExpenseMonthly,
                    Quotient(view.yearExpenseTotal,
                             AtLeastOne(Cardinality(ActiveExpenseMonths))))

(* ---------------------------------------------------------------------- *)
(* Properties of the trend panel                                           *)
(* ---------------------------------------------------------------------- *)

\* the months of the series with a strictly positive total
ActiveTrendMonths ==
  {i \in DOMAIN trendView.trendSeries : trendView.trendSeries[i].total > 0}

\* the sum of the totals of the first n months that are strictly positive
RECURSIVE SumOfPositive(_, _)
SumOfPositive(series, n) ==
  IF n = 0 THEN 0
  ELSE SumOfPositive(series, n - 1)
         + (IF series[n].total > 0 THEN series[n].total ELSE 0)

\* C22: the trend total is the sum of the category's monthly totals over the
\* months whose total is strictly positive, the average is the total divided
\* by max(1, number of those months), and it is 0 when no month is active.
C22_TrendTotalAndAverage ==
  trendSelected # NoSelection =>
    /\ trendView.trendTotal =
         SumOfPositive(trendView.trendSeries, Len(trendView.trendSeries))
    /\ SameQuotient(trendView.trendAverage,
                    Quotient(trendView.trendTotal,
                             AtLeastOne(Cardinality(ActiveTrendMonths))))
    /\ trendView.trendAverage.den > 0
    /\ ActiveTrendMonths = {} => trendView.trendAverage.num = 0

\* a negative month and a positive month: only the positive one counts
C22_Witness ==
  /\ trendItems.loaded
  /\ trendSelected = [direction |-> "income", name |-> "A"]
  /\ trendView.trendSeries[1].total = -1
  /\ trendView.trendSeries[2].total = 2
  /\ trendView.trendTotal = 2
  /\ trendView.trendAverage = Quotient(2, 1)

\* the first month of the series that has the given total
FirstMonthWith(total) ==
  LET i == CHOOSE k \in ActiveTrendMonths :
             /\ trendView.trendSeries[k].total = total
             /\ \A l \in ActiveTrendMonths :
                  trendView.trendSeries[l].total = total => k <= l
  IN trendView.trendSeries[i]

\* the largest and the smallest total among the active months
MaxActiveTotal ==
  CHOOSE t \in {trendView.trendSeries[i].total : i \in ActiveTrendMonths} :
    \A i \in ActiveTrendMonths : trendView.trendSeries[i].total <= t

MinActiveTotal ==
  CHOOSE t \in {trendView.trendSeries[i].total : i \in ActiveTrendMonths} :
    \A i \in ActiveTrendMonths : trendView.trendSeries[i].total >= t

\* C24: highest (lowest) is the month with the maximum (minimum) total among
\* the months with a strictly positive total, the chronologically first one
\* when several months tie, and both are null when no month is active.
C24_HighestAndLowest ==
  trendSelected # NoSelection =>
    IF ActiveTrendMonths = {}
      THEN /\ trendView.trendHighest = NoEntry
           /\ trendView.trendLowest = NoEntry
      ELSE /\ trendView.trendHighest = FirstMonthWith(MaxActiveTotal)
           /\ trendView.trendLowest = FirstMonthWith(MinActiveTotal)

\* two months tie and the row of the later month comes first in the input
C24_Witness ==
  /\ trendSelected = [direction |-> "income", name |-> "A"]
  /\ trendItems.income = << [month |-> 2, name |-> "A", total |-> 1],
                            [month |-> 1, name |-> "A", total |-> 1] >>
  /\ trendView.trendHighest = [month |-> 1, total |-> 1]
  /\ trendView.trendLowest = [month |-> 1, total |-> 1]

\* the rows the selected category has in the month, in input order
RowsOfSelected(month) ==
  LET source == IF trendSelected.direction = "income"
                  THEN trendItems.income ELSE trendItems.expense
  IN SelectSeq(source, LAMBDA item :
                 item.name = trendSelected.name /\ item.month = month)

\* C25: the trend series of a selected category has exactly twelve entries,
\* one per calendar month of the year in chronological order; a month with
\* no row for the category has total 0, and a month's value comes from the
\* rows of that month only.
C25_TwelveMonthsNoInterpolation ==
  trendSelected # NoSelection =>
    /\ Len(trendView.trendSeries) = 12
    /\ \A i \in 1..12 :
         /\ trendView.trendSeries[i].month = i
         /\ LET own == RowsOfSelected(i)
            IN trendView.trendSeries[i].total =
                 (IF own = <<>> THEN 0 ELSE own[Len(own)].total)

\* only February has a row: January before it and March after it are 0
C25_Witness ==
  /\ trendSelected = [direction |-> "income", name |-> "A"]
  /\ trendItems.income = << [month |-> 2, name |-> "A", total |-> 2] >>
  /\ trendView.trendSeries[1].total = 0
  /\ trendView.trendSeries[2].total = 2
  /\ trendView.trendSeries[3].total = 0
  /\ trendView.trendSeries[12].total = 0

\* the value the chart stack of the month shows for the name (0: no entry)
ChartedValue(rows, month, name) ==
  LET stack == Stack(rows, month, ChartNames)
      at == {i \in DOMAIN stack : stack[i].name = name}
  IN IF at = {} THEN 0 ELSE stack[CHOOSE i \in at : TRUE].value

\* the value the category list of the month page shows for the name
ListedValue(rows, month, name) ==
  LET categories == monthCategories(rows, month)
      at == {i \in DOMAIN categories : categories[i].name = name}
  IN IF at = {} THEN 0 ELSE categories[CHOOSE i \in at : TRUE].total

\* how many entries the chart stack of the month has for the name
EntriesInStack(rows, month, name) ==
  LET stack == Stack(rows, month, ChartNames)
  IN Cardinality({i \in DOMAIN stack : stack[i].name = name})

\* C27: when the raw input has two rows with the same (month, name), the
\* month's stack has at most one entry for the name, and the chart stack,
\* the trend series and the month category list use the same value for it.
C27_DuplicatesUnderOnePolicy ==
  (trendItems.loaded /\ trendSelected.direction = "income") =>
    \A month \in ChartMonths :
      LET trend == trendView.trendSeries[month].total
      IN /\ EntriesInStack(trendItems.income, month, trendSelected.name) <= 1
         /\ ListedValue(trendItems.income, month, trendSelected.name) = trend
         /\ ChartedValue(trendItems.income, month, trendSelected.name) =
              (IF trend > 0 THEN trend ELSE 0)

(* ---------------------------------------------------------------------- *)
(* Properties of sequences of rule operations                              *)
(* ---------------------------------------------------------------------- *)

\* the two rules select the same names from every category list
SameSelection(r1, r2) ==
  \A S \in SUBSET Names :
    applyRule(r1, SortedDistinct(S)) = applyRule(r2, SortedDistinct(S))

\* C26: toggling the same name twice in a row, from a 'custom' rule whose
\* included set has at least one other name, gives a 'custom' rule that
\* selects the same set as the original over every availableNames.
C26_ToggleTwiceFromCustom ==
  (/\ last.op = "toggle"
   /\ last.rule.mode = "custom"
   /\ Range(last.rule.included) \ {last.name} # {}) =>
    LET twice == toggleRule(rule, last.name)
    IN /\ twice.mode = "custom"
       /\ SameSelection(twice, last.rule)

\* the page of a user who has no stored rule and whose categories all have a
\* name: the rule starts as the default rule
DefaultInit ==
  /\ rule = defaultRule
  /\ availableNames = <<>>
  /\ selected = applyRule(rule, availableNames)
  /\ last = [op |-> "init", name |-> "", rule |-> rule, arg |-> rule,
             avail |-> availableNames]

DefaultNext ==
  \/ \E name \in Names \ {""} : ToggleCategory(name)
  \/ SelectAll
  \/ ClearAll
  \/ \E names \in SUBSET Names : ItemsLoaded(names)

\* C28: starting from the default rule, after any sequence of toggle (with
\* non-empty names), selectAll and clearAll, a 'none' rule has an empty
\* included list and a 'custom' rule a non-empty one; 'none' is entered only
\* by clearAll or by toggling off the last included name.
C28_NoneAndCustomStayApart ==
  /\ rule.mode = "none" => rule.included = <<>>
  /\ rule.mode = "custom" => rule.included # <<>>
  /\ (rule.mode = "none" /\ last.rule.mode # "none") =>
       \/ last.op = "clearAll"
       \/ /\ last.op = "toggle"
          /\ last.rule.mode = "custom"
          /\ Range(last.rule.included) = {last.name}

\* the last included name has just been toggled off
C28_Witness ==
  /\ last.op = "toggle"
  /\ last.name = "A"
  /\ last.rule = [mode |-> "custom", excluded |-> <<>>, included |-> <<"A">>]
  /\ rule = [mode |-> "none", excluded |-> <<>>, included |-> <<>>]

\* C29: for every rule and every non-empty name n, toggle(rule, n) flips the
\* checked state of n and leaves the checked state of every other name
\* unchanged.
C29_ToggleFlipsOnlyTheName ==
  (last.op = "toggle" /\ last.name # "") =>
    /\ isCategoryChecked(rule, last.name) = ~isCategoryChecked(last.rule, last.name)
    /\ \A other \in Names \ {last.name} :
         isCategoryChecked(rule, other) = isCategoryChecked(last.rule, other)

\* a name is checked in a 'none' rule that already lists another name: the
\* other name stays checked
C29_Witness ==
  /\ last.op = "toggle"
  /\ last.name = "A"
  /\ last.rule = [mode |-> "none", excluded |-> <<>>, included |-> <<"B">>]
  /\ isCategoryChecked(rule, "A")
  /\ isCategoryChecked(rule, "B")

(* ---------------------------------------------------------------------- *)
(* Properties of the requests                                              *)
(* ---------------------------------------------------------------------- *)

\* every request has been answered and every loadData response carried data
AllCompleted == yearsRequest = "done" /\ loads = {} /\ ~fetchLog.failed

\* C30: when the year changes while an earlier report request is in flight
\* (the automatic change after the years arrive included), then once all
\* requests have completed the cashflow, income and expense items held by
\* the page are those returned for the selected year, whatever the order of
\* the responses.
C30_HeldItemsAreOfSelectedYear ==
  AllCompleted => held = ResponseFor(year)

(* ---------------------------------------------------------------------- *)
(* Specifications                                                          *)
(* ---------------------------------------------------------------------- *)

allVars == <<vars, storeVars, pageVars, chartVars, trendVars, fetchVars>>

\* Each specification runs one harness; the state of the others stays at
\* the values given here.

Spec ==
  /\ env = "ok" /\ storage = NoDocument("missing") /\ mem = DefaultPair
  /\ lastS = [op |-> "idle"]
  /\ sessions = [s \in Sessions |-> ClosedSession] /\ lastP = [op |-> "idle"]
  /\ items = NoItems /\ chartRules = DefaultPair /\ view = [idle |-> TRUE]
  /\ trendItems = NoTrendItems /\ trendSelected = NoSelection
  /\ trendView = [idle |-> TRUE]
  /\ year = 1 /\ yearsRequest = "idle" /\ loads = {} /\ held = ResponseFor(0)
  /\ fetchLog = [idle |-> TRUE]
  /\ Init
  /\ [][Next /\ UNCHANGED <<storeVars, pageVars, chartVars, trendVars, fetchVars>>]_allVars

SpecStore ==
  /\ rule = defaultRule /\ availableNames = <<>> /\ selected = {}
  /\ last = [op |-> "idle"]
  /\ sessions = [s \in Sessions |-> ClosedSession] /\ lastP = [op |-> "idle"]
  /\ items = NoItems /\ chartRules = DefaultPair /\ view = [idle |-> TRUE]
  /\ trendItems = NoTrendItems /\ trendSelected = NoSelection
  /\ trendView = [idle |-> TRUE]
  /\ year = 1 /\ yearsRequest = "idle" /\ loads = {} /\ held = ResponseFor(0)
  /\ fetchLog = [idle |-> TRUE]
  /\ StoreInit
  /\ [][StoreNext /\ UNCHANGED <<vars, pageVars, chartVars, trendVars, fetchVars>>]_allVars

SpecPage ==
  /\ rule = defaultRule /\ availableNames = <<>> /\ selected = {}
  /\ last = [op |-> "idle"]
  /\ items = NoItems /\ chartRules = DefaultPair /\ view = [idle |-> TRUE]
  /\ trendItems = NoTrendItems /\ trendSelected = NoSelection
  /\ trendView = [idle |-> TRUE]
  /\ year = 1 /\ yearsRequest = "idle" /\ loads = {} /\ held = ResponseFor(0)
  /\ fetchLog = [idle |-> TRUE]
  /\ PageInit
  /\ [][PageNext /\ UNCHANGED <<vars, chartVars, trendVars, fetchVars>>]_allVars

SpecChart ==
  /\ rule = defaultRule /\ availableNames = <<>> /\ selected = {}
  /\ last = [op |-> "idle"]
  /\ env = "ok" /\ storage = NoDocument("missing") /\ mem = DefaultPair
  /\ lastS = [op |-> "idle"]
  /\ sessions = [s \in Sessions |-> ClosedSession] /\ lastP = [op |-> "idle"]
  /\ trendItems = NoTrendItems /\ trendSelected = NoSelection
  /\ trendView = [idle |-> TRUE]
  /\ year = 1 /\ yearsRequest = "idle" /\ loads = {} /\ held = ResponseFor(0)
  /\ fetchLog = [idle |-> TRUE]
  /\ ChartInit
  /\ [][ChartNext /\ UNCHANGED <<vars, storeVars, pageVars, trendVars, fetchVars>>]_allVars

SpecTrend ==
  /\ rule = defaultRule /\ availableNames = <<>> /\ selected = {}
  /\ last = [op |-> "idle"]
  /\ env = "ok" /\ storage = NoDocument("missing") /\ mem = DefaultPair
  /\ lastS = [op |-> "idle"]
  /\ sessions = [s \in Sessions |-> ClosedSession] /\ lastP = [op |-> "idle"]
  /\ items = NoItems /\ chartRules = DefaultPair /\ view = [idle |-> TRUE]
  /\ year = 1 /\ yearsRequest = "idle" /\ loads = {} /\ held = ResponseFor(0)
  /\ fetchLog = [idle |-> TRUE]
  /\ TrendInit
  /\ [][TrendNext /\ UNCHANGED <<vars, storeVars, pageVars, chartVars, fetchVars>>]_allVars

SpecDefault ==
  /\ env = "ok" /\ storage = NoDocument("missing") /\ mem = DefaultPair
  /\ lastS = [op |-> "idle"]
  /\ sessions = [s \in Sessions |-> ClosedSession] /\ lastP = [op |-> "idle"]
  /\ items = NoItems /\ chartRules = DefaultPair /\ view = [idle |-> TRUE]
  /\ trendItems = NoTrendItems /\ trendSelected = NoSelection
  /\ trendView = [idle |-> TRUE]
  /\ year = 1 /\ yearsRequest = "idle" /\ loads = {} /\ held = ResponseFor(0)
  /\ fetchLog = [idle |-> TRUE]
  /\ DefaultInit
  /\ [][DefaultNext /\ UNCHANGED <<storeVars, pageVars, chartVars, trendVars, fetchVars>>]_allVars

SpecFetch ==
  /\ rule = defaultRule /\ availableNames = <<>> /\ selected = {}
  /\ last = [op |-> "idle"]
  /\ env = "ok" /\ storage = NoDocument("missing") /\ mem = DefaultPair
  /\ lastS = [op |-> "idle"]
  /\ sessions = [s \in Sessions |-> ClosedSession] /\ lastP = [op |-> "idle"]
  /\ items = NoItems /\ chartRules = DefaultPair /\ view = [idle |-> TRUE]
  /\ trendItems = NoTrendItems /\ trendSelected = NoSelection
  /\ trendView = [idle |-> TRUE]
  /\ FetchInit
  /\ [][FetchNext /\ UNCHANGED <<vars, storeVars, pageVars, chartVars, trendVars>>]_allVars

====
